---- MODULE Spec2Model ----
(***************************************************************************)
(* Model of src/main.cpp: the hashes.md5 / hashes.md5.asc pipeline         *)
(* (generate_hashes_md5, sign_hashes, git_add_commit_push,                 *)
(* verify_signature, verify_md5sum) and the two button handlers of main    *)
(* that drive it over the detected repositories.                           *)
(*                                                                         *)
(* Strings that the code inspects (relative paths) are sequences of        *)
(* tokens, so that a prefix test on the string is a prefix test on the     *)
(* sequence.  The external tools (md5sum, gpg, git) are modelled by what   *)
(* the command line written in the source makes them do.                   *)
(***************************************************************************)
EXTENDS Integers, Sequences, FiniteSets, TLC

\* ---------------------------------------------------------------- bounds
\* button presses in one session
MaxRuns == 2
\* events from outside in one session: tool invocations that fail for a
\* reason outside the disk state (gpg cannot sign, a git command returns
\* non-zero, gpg prints its verdict in other words than the English ones,
\* the listing of the root throws), and edits made to a repository or to the
\* key field of the window
MaxEvents == 1

\* ------------------------------------------------------- directory trees
\* the subdirectories of the root path
Dirs == {"A", "B"}

\* a file that does not exist
NoManifest == [exists |-> FALSE, lines |-> << >>]
NoSig == [kind |-> "none", over |-> << >>, stamp |-> 0]
Manifest(lines) == [exists |-> TRUE, lines |-> lines]

\* relative paths, as fs::relative(p.path(), repo).string()
GitDir == <<".git">>
GitHead == <<".git", "/", "HEAD">>
GitIgnore == <<".git", "ignore">>
FileA == <<"a">>
SubDir == <<"sub">>
SubManifest == <<"sub", "/", "hashes.md5">>
ManifestName == <<"hashes.md5">>
SignatureName == <<"hashes.md5", ".asc">>

\* the regular files of a repository that are not the manifest or signature
UserFiles == {FileA, SubManifest}
Contents == {0, 1}

\* the entries of a repository before and after the place of the
\* signature file
ListingHead ==
  << [path |-> GitDir, regular |-> FALSE],
     [path |-> GitHead, regular |-> TRUE],
     [path |-> GitIgnore, regular |-> TRUE],
     [path |-> FileA, regular |-> TRUE],
     [path |-> ManifestName, regular |-> TRUE] >>
ListingTail ==
  << [path |-> SubDir, regular |-> FALSE],
     [path |-> SubManifest, regular |-> TRUE] >>
ListingWithAsc == ListingHead \o << [path |-> SignatureName, regular |-> TRUE] >> \o ListingTail
ListingWithoutAsc == ListingHead \o ListingTail

\* what the recursive iteration of a repository yields, in one order;
\* the signature file is listed only when it exists
BaseListing(ascPresent) == IF ascPresent THEN ListingWithAsc ELSE ListingWithoutAsc

Reverse(s) == [i \in 1..Len(s) |-> s[Len(s) + 1 - i]]
ReversedWithAsc == Reverse(ListingWithAsc)
ReversedWithoutAsc == Reverse(ListingWithoutAsc)

\* the iteration order of a directory is unspecified: either direction,
\* the same one as long as the file system is the same
Listing(ascPresent, rev) ==
  IF rev THEN (IF ascPresent THEN ReversedWithAsc ELSE ReversedWithoutAsc)
  ELSE BaseListing(ascPresent)

\* std::string::rfind(prefix, 0) == 0
StartsWith(s, prefix) ==
  /\ Len(s) >= Len(prefix)
  /\ SubSeq(s, 1, Len(prefix)) = prefix

\* Excluded comparing the whole path with ".git" instead of its beginning
ExcludedExactGit(srel) ==
  \/ srel = <<".git">>
  \/ srel = ManifestName
  \/ srel = SignatureName

\* the files generate_hashes_md5 passes over without hashing
Excluded(srel) ==
  \/ StartsWith(srel, <<".git">>)
  \/ srel = ManifestName
  \/ srel = SignatureName

\* the digest md5sum prints for a content
Md5(c) == 100 + 7 * c

\* run_command_capture("md5sum <file>"): the exit status and the tokens of
\* the output (the digest, then the file name); cont holds the content of
\* the user files, the other files have content 0
Md5sumCmd(path, cont, unread) ==
  IF path \in unread
    THEN [rc |-> 1, out |-> <<"md5sum: Permission denied">>]
    ELSE [rc |-> 0, out |-> <<Md5(IF path \in DOMAIN cont THEN cont[path] ELSE 0), path>>]

\* RelPath without the "./" in front
RelPathBare(srel) == srel

\* the relative path written to the manifest
RelPath(srel) == <<"./">> \o srel

\* the loop of generate_hashes_md5 over a listing, from entry i on:
\* the lines written to the manifest and whether the loop ran to its end
RECURSIVE HashLoop(_, _, _, _, _)
HashLoop(listing, i, cont, unread, acc) ==
  IF i > Len(listing)
    THEN [ok |-> TRUE, lines |-> acc, out |-> << >>]
    ELSE
      LET p == listing[i] IN
      IF ~p.regular \/ Excluded(p.path)
        THEN HashLoop(listing, i + 1, cont, unread, acc)
        ELSE
          LET res == Md5sumCmd(p.path, cont, unread) IN
          IF res.rc # 0
            THEN [ok |-> FALSE, lines |-> acc, out |-> res.out]
            ELSE IF res.out = << >>
              THEN HashLoop(listing, i + 1, cont, unread, acc)
              ELSE HashLoop(listing, i + 1, cont, unread,
                     Append(acc, [hash |-> res.out[1], path |-> RelPath(p.path)]))


\* ------------------------------------------------------------------ state
VARIABLES
  pc,          \* where the frame's handler is: "idle", or the stage about to run
  repos,       \* the detected repositories (static std::vector<fs::path> repos)
  idx,         \* position in repos of the loop iteration under way
  log_text,    \* the log shown in the window
  sigok,       \* local of the verify handler
  rootOk,      \* the root path exists and can be listed
  reversed,    \* the direction in which the file system lists a directory
  marker,      \* the subdirectories that contain .git
  gpg_key_buf, \* the text of the field "GPG_KEY_ID (opcional)"
  content,     \* content of the user files of each directory
  unreadable,  \* the user files md5sum cannot read
  manifest,    \* hashes.md5 of each directory: NoManifest, or its lines
  asc,         \* hashes.md5.asc of each directory: NoSig, or a signature
  index,       \* git index: what is staged for the two files
  head,        \* git HEAD: what is committed for the two files
  dirty,       \* the working tree has other pending changes
  commits,     \* commits created by the program
  pushes,      \* pushes performed by the program
  calls,       \* stage invocations of the run under way, in order
  gitCalls,    \* git commands of the last git_add_commit_push of the run, in order
  lastSign,    \* what the last sign_hashes of each directory returned
  pubOk,       \* the last git_add_commit_push of a directory returned true,
               \* and nothing was edited in the directory since
  runs, faults, edits

disk == <<content, unreadable, manifest, asc>>
git == <<index, head, dirty, commits, pushes>>
env == <<rootOk, reversed, marker, gpg_key_buf>>
ctl == <<pc, repos, idx, sigok>>
hist == <<calls, gitCalls, lastSign, pubOk>>
budget == <<runs, faults, edits>>
vars == <<ctl, log_text, env, disk, git, hist, budget>>

\* a log line: its fixed text and the repository it names
L(text, r) == <<text, r>>

\* ------------------------------------------------------------- the tools
\* a signature file: how it was made, the manifest lines it was made over,
\* and when
Sig(kind, over, stamp) == [kind |-> kind, over |-> over, stamp |-> stamp]

\* run_command_capture("gpg --armor --output <asc> --sign <hashes>"):
\* --sign writes a signed message that embeds the data
GpgSignCmd(man, stamp) == Sig("inline", man, stamp)

\* the line in which gpg names the key of the signature; --keyid-format
\* LONG makes the versions of gpg that print key IDs print 16 digits
GpgKeyLine(long) == L(IF long THEN "gpg: using key ID" ELSE "gpg: using key", "")

\* the line in which gpg says that the signature is good, in English or in
\* the language of the session
GpgGoodLine(english) == L(IF english THEN "gpg: Good signature" ELSE "gpg: Firma correcta", "")

\* GpgVerifyCmd that does not read the data file
GpgVerifyCmdAnyData(sig, man, long, english) ==
  IF sig.kind # "detached"
    THEN [rc |-> 2, out |-> <<L("gpg: not a detached signature", "")>>]
    ELSE [rc |-> 0, out |-> <<GpgKeyLine(long), GpgGoodLine(english)>>]

\* run_command_capture("gpg --verify [--keyid-format LONG] <asc> <hashes>"):
\* gpg is given a data file, so it accepts only a detached signature, made
\* over those bytes
GpgVerifyCmd(sig, man, long, english) ==
  IF sig.kind # "detached"
    THEN [rc |-> 2, out |-> <<L("gpg: not a detached signature", "")>>]
    ELSE IF sig.over # man
      THEN [rc |-> 1, out |-> <<GpgKeyLine(long), L("gpg: BAD signature", "")>>]
      ELSE [rc |-> 0, out |-> <<GpgKeyLine(long), GpgGoodLine(english)>>]

\* out.find("Good signature") != std::string::npos
HasGoodSignature(out) == \E i \in 1..Len(out) : out[i][1] = "gpg: Good signature"

\* LineOk that looks only at whether the listed file can be read
LineOkNameOnly(e, cont, unread) ==
  \E f \in UserFiles :
    /\ e.path = RelPath(f)
    /\ f \notin unread

\* one line of md5sum -c: the listed file is read and its digest compared
LineOk(e, cont, unread) ==
  \E f \in UserFiles :
    /\ e.path = RelPath(f)
    /\ f \notin unread
    /\ e.hash = Md5(cont[f])

\* what md5sum -c prints for one line of the list
Md5sumCheckLine(e, cont, unread) ==
  IF LineOk(e, cont, unread) THEN L(": OK", e.path)
  ELSE IF \E f \in UserFiles \ unread : e.path = RelPath(f) THEN L(": FAILED", e.path)
  ELSE L(": FAILED open or read", e.path)

\* Md5sumCheckCmd passing over the listed files it cannot read
Md5sumCheckCmdIgnoreMissing(man, cont, unread) ==
  LET bad == {i \in 1..Len(man) : ~LineOkNameOnly(man[i], cont, {}) \/
                                  (LineOkNameOnly(man[i], cont, unread) /\ ~LineOk(man[i], cont, unread))} IN
  [rc |-> IF man = << >> \/ bad # {} THEN 1 ELSE 0,
   mismatches |-> bad,
   out |-> IF man = << >> THEN <<L("md5sum: no properly formatted checksum lines found", "")>>
           ELSE [i \in 1..Len(man) |-> Md5sumCheckLine(man[i], cont, unread)]
                \o (IF bad # {} THEN <<L("md5sum: WARNING", "")>> ELSE << >>)]

\* run_command_capture("cd <repo> && md5sum -c hashes.md5"): one output
\* line per line of the list; fails on a mismatch, on a file it cannot
\* read, and on a list without any line
Md5sumCheckCmd(man, cont, unread) ==
  LET bad == {i \in 1..Len(man) : ~LineOk(man[i], cont, unread)} IN
  [rc |-> IF man = << >> \/ bad # {} THEN 1 ELSE 0,
   mismatches |-> bad,
   out |-> IF man = << >> THEN <<L("md5sum: no properly formatted checksum lines found", "")>>
           ELSE [i \in 1..Len(man) |-> Md5sumCheckLine(man[i], cont, unread)]
                \o (IF bad # {} THEN <<L("md5sum: WARNING", "")>> ELSE << >>)]

\* ------------------------------------------------------------ the stages
\* GenerateHashes that leaves the previous manifest in place when it fails
GenerateHashesKeepOld(d, listing) ==
  LET res == HashLoop(listing, 1, content[d], unreadable[d], << >>) IN
  IF res.ok
    THEN [ok |-> TRUE, manifest |-> Manifest(res.lines), log |-> <<L("Generado: ", d)>>]
    ELSE [ok |-> FALSE, manifest |-> manifest[d],
          log |-> <<L("md5sum fallo para ", d), L("md5sum output", ""), L("", "")>>]

\* generate_hashes_md5 once the manifest is open: the file is truncated,
\* then written line by line
GenerateHashes(d, listing) ==
  LET res == HashLoop(listing, 1, content[d], unreadable[d], << >>) IN
  IF res.ok
    THEN [ok |-> TRUE, manifest |-> Manifest(res.lines), log |-> <<L("Generado: ", d)>>]
    ELSE [ok |-> FALSE, manifest |-> Manifest(res.lines),
          log |-> <<L("md5sum fallo para ", d), L("md5sum output", ""), L("", "")>>]

\* SignHashes that does not look at what gpg returned
SignHashesIgnoreRc(d, gpgOk, keep, stamp) ==
  IF ~manifest[d].exists
    THEN [ok |-> FALSE, asc |-> asc[d], ran |-> FALSE, log |-> <<L("No existe ", d)>>]
    ELSE IF ~gpgOk
      THEN [ok |-> TRUE, asc |-> IF keep THEN asc[d] ELSE NoSig, ran |-> TRUE,
            log |-> <<L("gpg output", ""), L("Firmado: ", d)>>]
      ELSE [ok |-> TRUE, asc |-> GpgSignCmd(manifest[d].lines, stamp), ran |-> TRUE,
            log |-> <<L("gpg output", ""), L("Firmado: ", d)>>]

\* sign_hashes; gpgOk says whether gpg manages to sign, keep whether a
\* failing gpg leaves the output file as it was
SignHashes(d, gpgOk, keep, stamp) ==
  IF ~manifest[d].exists
    THEN [ok |-> FALSE, asc |-> asc[d], ran |-> FALSE, log |-> <<L("No existe ", d)>>]
    ELSE IF ~gpgOk
      THEN [ok |-> FALSE, asc |-> IF keep THEN asc[d] ELSE NoSig, ran |-> TRUE,
            log |-> <<L("gpg output", ""), L("gpg sign failed", "")>>]
      ELSE [ok |-> TRUE, asc |-> GpgSignCmd(manifest[d].lines, stamp), ran |-> TRUE,
            log |-> <<L("gpg output", ""), L("Firmado: ", d)>>]

\* VerifySignature that returns true whenever gpg returned zero
VerifySignatureRcOnly(d, gpg_key, english) ==
  IF asc[d] = NoSig \/ ~manifest[d].exists
    THEN [ok |-> FALSE, ran |-> FALSE, log |-> <<L("Faltan archivos de firma o hashes en ", d)>>]
    ELSE
      LET res == GpgVerifyCmd(asc[d], manifest[d].lines, gpg_key # "", english) IN
      IF res.rc # 0
        THEN [ok |-> FALSE, ran |-> TRUE, log |-> res.out \o <<L("gpg verify returned rc", "")>>]
        ELSE [ok |-> TRUE, ran |-> TRUE, log |-> res.out \o <<L("Firma valida en ", d)>>]

\* VerifySignature that takes the key typed in as the only trusted one:
\* the signatures of the repositories were made with another key
VerifySignaturePinned(d, gpg_key, english) ==
  IF asc[d] = NoSig \/ ~manifest[d].exists
    THEN [ok |-> FALSE, ran |-> FALSE, log |-> <<L("Faltan archivos de firma o hashes en ", d)>>]
    ELSE
      LET res == GpgVerifyCmd(asc[d], manifest[d].lines, gpg_key # "", english) IN
      IF res.rc # 0 \/ gpg_key # ""
        THEN [ok |-> FALSE, ran |-> TRUE, log |-> res.out \o <<L("gpg verify returned rc", "")>>]
        ELSE IF HasGoodSignature(res.out)
          THEN [ok |-> TRUE, ran |-> TRUE, log |-> res.out \o <<L("Firma valida en ", d)>>]
          ELSE [ok |-> FALSE, ran |-> TRUE,
                log |-> res.out \o <<L("Firma NO valida o no verificable en ", d)>>]

\* verify_signature; english says whether gpg prints its English messages
VerifySignature(d, gpg_key, english) ==
  IF asc[d] = NoSig \/ ~manifest[d].exists
    THEN [ok |-> FALSE, ran |-> FALSE, log |-> <<L("Faltan archivos de firma o hashes en ", d)>>]
    ELSE
      LET res == GpgVerifyCmd(asc[d], manifest[d].lines, gpg_key # "", english) IN
      IF res.rc # 0
        THEN [ok |-> FALSE, ran |-> TRUE, log |-> res.out \o <<L("gpg verify returned rc", "")>>]
        ELSE IF HasGoodSignature(res.out)
          THEN [ok |-> TRUE, ran |-> TRUE, log |-> res.out \o <<L("Firma valida en ", d)>>]
          ELSE [ok |-> FALSE, ran |-> TRUE,
                log |-> res.out \o <<L("Firma NO valida o no verificable en ", d)>>]

\* verify_md5sum looking at the manifest of the first repository
VerifyMd5sumFirst(d) ==
  IF ~manifest[repos[1]].exists
    THEN [ok |-> FALSE, ran |-> FALSE, mismatches |-> {}, log |-> <<L("No existe ", d)>>]
    ELSE
      LET res == Md5sumCheckCmd(manifest[repos[1]].lines, content[d], unreadable[d]) IN
      IF res.rc = 0
        THEN [ok |-> TRUE, ran |-> TRUE, mismatches |-> res.mismatches,
              log |-> res.out \o <<L("Integridad OK en ", d)>>]
        ELSE [ok |-> FALSE, ran |-> TRUE, mismatches |-> res.mismatches,
              log |-> res.out \o <<L("Integridad FALLIDA en ", d)>>]

\* verify_md5sum
VerifyMd5sum(d) ==
  IF ~manifest[d].exists
    THEN [ok |-> FALSE, ran |-> FALSE, mismatches |-> {}, log |-> <<L("No existe ", d)>>]
    ELSE
      LET res == Md5sumCheckCmd(manifest[d].lines, content[d], unreadable[d]) IN
      IF res.rc = 0
        THEN [ok |-> TRUE, ran |-> TRUE, mismatches |-> res.mismatches,
              log |-> res.out \o <<L("Integridad OK en ", d)>>]
        ELSE [ok |-> FALSE, ran |-> TRUE, mismatches |-> res.mismatches,
              log |-> res.out \o <<L("Integridad FALLIDA en ", d)>>]


\* git_add_commit_push; fail names the git command that returns non-zero
\* for a reason of its own ("none": no such command)
GitSteps == <<"add", "status", "commit", "push">>
GitFailures == {"none", "add", "status", "commit", "push"}

\* GitAddCommitPush that does not look at what git commit returned
GitAddCommitPushUnchecked(d, fail) ==
  LET worktree == [man |-> manifest[d], asc |-> asc[d]]
      addRc == IF \/ fail = "add"
                  \/ (~manifest[d].exists /\ ~index[d].man.exists)
                  \/ (asc[d] = NoSig /\ index[d].asc = NoSig)
               THEN 1 ELSE 0
      staged == worktree
      statusRc == IF fail = "status" THEN 1 ELSE 0
      statusEmpty == staged = head[d] /\ ~dirty[d]
      commitRc == IF fail = "commit" \/ staged = head[d] THEN 1 ELSE 0
      pushRc == IF fail = "push" THEN 1 ELSE 0
      same == [index |-> index[d], head |-> head[d], commits |-> commits[d], pushes |-> pushes[d]]
      committed == IF commitRc = 0
                     THEN [same EXCEPT !.index = staged, !.head = staged, !.commits = @ + 1]
                     ELSE [same EXCEPT !.index = staged]
  IN
  IF addRc # 0
    THEN same @@
         [ok |-> FALSE, ran |-> <<"add">>,
          log |-> <<L("git output", ""), L("Comando git fallo: git add", "")>>]
  ELSE IF statusRc # 0
    THEN [same EXCEPT !.index = staged] @@
         [ok |-> FALSE, ran |-> <<"add", "status">>,
          log |-> <<L("git output", ""), L("git status output", "")>>]
  ELSE IF statusEmpty
    THEN [same EXCEPT !.index = staged] @@
         [ok |-> TRUE, ran |-> <<"add", "status">>,
          log |-> <<L("git output", ""), L("No hay cambios para commitear en ", d)>>]
  ELSE IF pushRc # 0
    THEN committed @@
         [ok |-> FALSE, ran |-> <<"add", "status", "commit", "push">>,
          log |-> <<L("git output", ""), L("git output", ""), L("git output", ""),
                    L("Comando git fallo: git push", "")>>]
  ELSE [committed EXCEPT !.pushes = @ + 1] @@
       [ok |-> TRUE, ran |-> <<"add", "status", "commit", "push">>,
        log |-> <<L("git output", ""), L("git output", ""), L("git output", ""),
                  L("Push OK para ", d)>>]

GitAddCommitPush(d, fail) ==
  LET worktree == [man |-> manifest[d], asc |-> asc[d]]
      \* git add of a path that neither exists nor is tracked is an error
      addRc == IF \/ fail = "add"
                  \/ (~manifest[d].exists /\ ~index[d].man.exists)
                  \/ (asc[d] = NoSig /\ index[d].asc = NoSig)
               THEN 1 ELSE 0
      staged == worktree
      \* git status --porcelain lists every pending change of the work tree
      statusRc == IF fail = "status" THEN 1 ELSE 0
      statusEmpty == staged = head[d] /\ ~dirty[d]
      \* git commit has nothing to record when nothing is staged
      commitRc == IF fail = "commit" \/ staged = head[d] THEN 1 ELSE 0
      pushRc == IF fail = "push" THEN 1 ELSE 0
      same == [index |-> index[d], head |-> head[d], commits |-> commits[d], pushes |-> pushes[d]]
  IN
  IF addRc # 0
    THEN same @@
         [ok |-> FALSE, ran |-> <<"add">>,
          log |-> <<L("git output", ""), L("Comando git fallo: git add", "")>>]
  ELSE IF statusRc # 0
    THEN [same EXCEPT !.index = staged] @@
         [ok |-> FALSE, ran |-> <<"add", "status">>,
          log |-> <<L("git output", ""), L("git status output", "")>>]
  ELSE IF statusEmpty
    THEN [same EXCEPT !.index = staged] @@
         [ok |-> TRUE, ran |-> <<"add", "status">>,
          log |-> <<L("git output", ""), L("No hay cambios para commitear en ", d)>>]
  ELSE IF commitRc # 0
    THEN [same EXCEPT !.index = staged] @@
         [ok |-> FALSE, ran |-> <<"add", "status", "commit">>,
          log |-> <<L("git output", ""), L("git output", ""),
                    L("Comando git fallo: git commit", "")>>]
  ELSE IF pushRc # 0
    THEN [same EXCEPT !.index = staged, !.head = staged, !.commits = @ + 1] @@
         [ok |-> FALSE, ran |-> <<"add", "status", "commit", "push">>,
          log |-> <<L("git output", ""), L("git output", ""), L("git output", ""),
                    L("Comando git fallo: git push", "")>>]
  ELSE [same EXCEPT !.index = staged, !.head = staged, !.commits = @ + 1, !.pushes = @ + 1] @@
       [ok |-> TRUE, ran |-> <<"add", "status", "commit", "push">>,
        log |-> <<L("git output", ""), L("git output", ""), L("git output", ""),
                  L("Push OK para ", d)>>]


\* ------------------------------------------------------- initial states
\* the manifest a directory holds when it was generated and signed before
\* the session, outside the program (a detached signature)
OldLines == << [hash |-> Md5(0), path |-> RelPath(FileA)],
               [hash |-> Md5(0), path |-> RelPath(SubManifest)] >>
Published == [man |-> Manifest(OldLines), asc |-> Sig("detached", OldLines, 0)]
Unpublished == [man |-> NoManifest, asc |-> NoSig]

Init ==
  /\ pc = "idle" /\ repos = << >> /\ idx = 1 /\ sigok = FALSE
  /\ log_text = << >>
  /\ rootOk \in BOOLEAN
  /\ reversed \in BOOLEAN
  /\ marker \in SUBSET Dirs
  /\ ~rootOk => marker = {} /\ ~reversed
  /\ gpg_key_buf = ""
  /\ content = [d \in Dirs |-> [f \in UserFiles |-> 0]]
  /\ unreadable \in [Dirs -> {{}, {SubManifest}}]
  /\ head \in [Dirs -> {Published, Unpublished}]
  /\ index = head
  /\ manifest = [d \in Dirs |-> head[d].man]
  /\ asc = [d \in Dirs |-> head[d].asc]
  /\ dirty = [d \in Dirs |-> FALSE]
  /\ \A d \in Dirs \ marker :
       unreadable[d] = {} /\ head[d] = Unpublished
  /\ Cardinality({d \in Dirs : unreadable[d] # {} \/ head[d] # Unpublished}) <= 1
  /\ commits = [d \in Dirs |-> 0] /\ pushes = [d \in Dirs |-> 0]
  /\ calls = << >> /\ gitCalls = << >>
  /\ lastSign = [d \in Dirs |-> "none"] /\ pubOk = [d \in Dirs |-> FALSE]
  /\ runs = 0 /\ faults = 0 /\ edits = 0

\* ------------------------------------------------------------ detection
IsRepo(d) == d \in marker

\* the order in which fs::directory_iterator lists the root: unspecified,
\* and the same as long as the file system is the same
RootOrder == IF reversed THEN <<"B", "A">> ELSE <<"A", "B">>

\* the detection loop of main over the root in the order given, the
\* iteration throwing after stop entries (Len(order): it does not throw)
DetectRepos(order, stop) ==
  IF ~rootOk THEN << >>
  ELSE SelectSeq(SubSeq(order, 1, stop), IsRepo)

\* the detection runs in every frame, before the buttons are looked at
Detect(r) ==
  \E stop \in 0..Len(RootOrder) :
    /\ stop < Len(RootOrder) => rootOk /\ faults + edits < MaxEvents
    /\ r = DetectRepos(RootOrder, stop)

DetectFaulty(r) == r # DetectRepos(RootOrder, Len(RootOrder))

Call(stage, d, ok) == [stage |-> stage, repo |-> d, ok |-> ok]

\* ---------------------------------------------------------- Publish-All
\* "Generar & Firmar (todos)" pressed
PublishAllStart ==
  /\ pc = "idle" /\ runs < MaxRuns
  /\ \E r \in {DetectRepos(RootOrder, stop) : stop \in 0..Len(RootOrder)} :
       /\ Detect(r)
       /\ repos' = r
       /\ faults' = IF DetectFaulty(r) THEN faults + 1 ELSE faults
       /\ pc' = IF r = << >> THEN "pubEnd" ELSE "gen"
  /\ idx' = 1
  /\ log_text' = Append(log_text, L("=== Generar & Firmar ===", ""))
  /\ calls' = << >> /\ gitCalls' = << >>
  /\ runs' = runs + 1
  /\ UNCHANGED <<sigok, env, disk, git, lastSign, pubOk, edits>>

\* NextRepo leaving the loop after the first repository
NextRepoBreak(endpc, firstpc) ==
  pc' = endpc /\ idx' = idx

\* the loop moves to the next repository, or past the last one
NextRepo(endpc, firstpc) ==
  IF idx < Len(repos)
    THEN pc' = firstpc /\ idx' = idx + 1
    ELSE pc' = endpc /\ idx' = idx

\* StageDone without the continue: the next stage runs whatever was returned
StageDoneFallThrough(ok, next) ==
  pc' = next /\ idx' = idx

\* if (!stage(...)) { ...; continue; } else ...: the next stage runs only
\* when this one returned true
StageDone(ok, next) ==
  IF ok THEN pc' = next /\ idx' = idx
  ELSE NextRepo("pubEnd", "gen")

\* the loop body up to the end of generate_hashes_md5
Generate ==
  /\ pc = "gen"
  /\ LET d == repos[idx] IN
     \E openOk \in BOOLEAN :
       /\ ~openOk => faults + edits < MaxEvents
       /\ \E res \in {IF openOk THEN GenerateHashes(d, Listing(asc[d] # NoSig, reversed))
                       ELSE [ok |-> FALSE, manifest |-> manifest[d],
                             log |-> <<L("Error: no se puede crear ", d)>>]} :
          /\ manifest' = [manifest EXCEPT ![d] = res.manifest]
          /\ faults' = IF openOk THEN faults ELSE faults + 1
          /\ calls' = Append(calls, Call("generate", d, res.ok))
          /\ log_text' = IF res.ok
               THEN log_text \o <<L("Procesando: ", d)>> \o res.log
               ELSE log_text \o <<L("Procesando: ", d), L("ERROR generando hashes en ", d)>>
                             \o res.log \o <<L("", "")>>
          /\ StageDone(res.ok, "sign")
  /\ UNCHANGED <<repos, sigok, env, content, unreadable, asc, git, gitCalls, lastSign,
                 pubOk, runs, edits>>

\* the loop body over sign_hashes
Sign ==
  /\ pc = "sign"
  /\ LET d == repos[idx] IN
     \E gpgOk \in BOOLEAN, keep \in BOOLEAN :
       /\ gpgOk => keep
       /\ ~gpgOk => faults + edits < MaxEvents /\ manifest[d].exists
       /\ \E res \in {SignHashes(d, gpgOk, keep, runs)} :
          /\ asc' = [asc EXCEPT ![d] = res.asc]
          /\ faults' = IF gpgOk THEN faults ELSE faults + 1
          /\ calls' = Append(calls, Call("sign", d, res.ok))
          /\ lastSign' = [lastSign EXCEPT ![d] = IF res.ok THEN "ok" ELSE "failed"]
          /\ log_text' = IF res.ok
               THEN log_text \o res.log
               ELSE log_text \o <<L("ERROR firmando en ", d)>> \o res.log \o <<L("", "")>>
          /\ StageDone(res.ok, "git")
  /\ UNCHANGED <<repos, sigok, env, content, unreadable, manifest, git, gitCalls, pubOk,
                 runs, edits>>

\* the loop body over git_add_commit_push
Publish ==
  /\ pc = "git"
  /\ LET d == repos[idx] IN
     \E fail \in GitFailures :
       \E res \in {GitAddCommitPush(d, fail)} :
       /\ fail # "none" => /\ faults + edits < MaxEvents
                           /\ res # GitAddCommitPush(d, "none")
       /\ index' = [index EXCEPT ![d] = res.index]
       /\ head' = [head EXCEPT ![d] = res.head]
       /\ commits' = [commits EXCEPT ![d] = res.commits]
       /\ pushes' = [pushes EXCEPT ![d] = res.pushes]
       /\ faults' = IF fail = "none" THEN faults ELSE faults + 1
       /\ calls' = Append(calls, Call("publish", d, res.ok))
       /\ gitCalls' = res.ran
       /\ pubOk' = [pubOk EXCEPT ![d] = res.ok]
       /\ log_text' = IF res.ok THEN log_text \o res.log
                      ELSE log_text \o <<L("ERROR git en ", d)>> \o res.log \o <<L("", "")>>
       /\ NextRepo("pubEnd", "gen")
  /\ UNCHANGED <<repos, sigok, env, disk, dirty, lastSign, runs, edits>>

\* PublishAllEnd that starts the log afresh with its closing line
PublishAllEndClearLog ==
  /\ pc = "pubEnd"
  /\ log_text' = <<L("=== Fin ===", "")>>
  /\ pc' = "idle"
  /\ UNCHANGED <<repos, idx, sigok, env, disk, git, hist, budget>>

\* log_text += "=== Fin ===\n"
PublishAllEnd ==
  /\ pc = "pubEnd"
  /\ log_text' = Append(log_text, L("=== Fin ===", ""))
  /\ pc' = "idle"
  /\ UNCHANGED <<repos, idx, sigok, env, disk, git, hist, budget>>

\* ----------------------------------------------------------- Verify-All
\* ResultLine with the signature outcome printed in both fields
ResultLineSigTwice(sig, md) ==
  L(IF sig THEN "Resultado: firma=OK, md5=OK" ELSE "Resultado: firma=FAIL, md5=FAIL", "")

\* "Resultado: firma=" + (sigok ? "OK" : "FAIL") + ", md5=" + (mdok ? "OK" : "FAIL")
ResultLine(sig, md) ==
  L(IF sig THEN (IF md THEN "Resultado: firma=OK, md5=OK" ELSE "Resultado: firma=OK, md5=FAIL")
    ELSE (IF md THEN "Resultado: firma=FAIL, md5=OK" ELSE "Resultado: firma=FAIL, md5=FAIL"), "")

\* "Verificar (todos)" pressed
VerifyAllStart ==
  /\ pc = "idle" /\ runs < MaxRuns
  /\ \E r \in {DetectRepos(RootOrder, stop) : stop \in 0..Len(RootOrder)} :
       /\ Detect(r)
       /\ repos' = r
       /\ faults' = IF DetectFaulty(r) THEN faults + 1 ELSE faults
       /\ pc' = IF r = << >> THEN "verEnd" ELSE "vsig"
  /\ idx' = 1
  /\ log_text' = Append(log_text, L("=== Verificar ===", ""))
  /\ calls' = << >> /\ gitCalls' = << >>
  /\ runs' = runs + 1
  /\ UNCHANGED <<sigok, env, disk, git, lastSign, pubOk, edits>>

VerifySig ==
  /\ pc = "vsig"
  /\ LET d == repos[idx] IN
     \E english \in BOOLEAN :
       \E res \in {VerifySignature(d, gpg_key_buf, english)} :
       /\ ~english => /\ faults + edits < MaxEvents
                      /\ res # VerifySignature(d, gpg_key_buf, TRUE)
       /\ sigok' = res.ok
       /\ faults' = IF english THEN faults ELSE faults + 1
       /\ log_text' = log_text \o <<L("Verificando: ", d)>> \o res.log
       /\ calls' = Append(calls, Call("verify_signature", d, res.ok))
  /\ pc' = "vmd5"
  /\ UNCHANGED <<repos, idx, env, disk, git, gitCalls, lastSign, pubOk, runs, edits>>

\* VerifyMd5 that removes a manifest that failed the check
VerifyMd5Cleanup ==
  /\ pc = "vmd5"
  /\ \E d \in {repos[idx]} : \E res \in {VerifyMd5sum(d)} :
     /\ log_text' = log_text \o res.log \o <<ResultLine(sigok, res.ok)>>
     /\ calls' = Append(calls, Call("verify_md5sum", d, res.ok))
     /\ manifest' = IF res.ok THEN manifest ELSE [manifest EXCEPT ![d] = NoManifest]
  /\ NextRepo("verEnd", "vsig")
  /\ UNCHANGED <<repos, sigok, env, content, unreadable, asc, git, gitCalls, lastSign,
                 pubOk, budget>>

\* the loop body from verify_md5sum to the status line
VerifyMd5 ==
  /\ pc = "vmd5"
  /\ \E d \in {repos[idx]} : \E res \in {VerifyMd5sum(d)} :
     /\ log_text' = log_text \o res.log \o <<ResultLine(sigok, res.ok)>>
     /\ calls' = Append(calls, Call("verify_md5sum", d, res.ok))
  /\ NextRepo("verEnd", "vsig")
  /\ UNCHANGED <<repos, sigok, env, disk, git, gitCalls, lastSign, pubOk, budget>>

VerifyAllEnd ==
  /\ pc = "verEnd"
  /\ log_text' = Append(log_text, L("=== Fin verificacion ===", ""))
  /\ pc' = "idle"
  /\ UNCHANGED <<repos, idx, sigok, env, disk, git, hist, budget>>

\* ------------------------------------------- edits from outside, at rest
\* the files of a repository that get edited
Editable == {FileA}

\* a user file of a repository gets another content
ModifyFile ==
  /\ pc = "idle" /\ faults + edits < MaxEvents
  /\ \E d \in marker, f \in Editable :
       /\ content' = [content EXCEPT ![d][f] = 1 - @]
       /\ dirty' = [dirty EXCEPT ![d] = TRUE]
       /\ pubOk' = [pubOk EXCEPT ![d] = FALSE]
  /\ edits' = edits + 1
  /\ UNCHANGED <<ctl, log_text, env, unreadable, manifest, asc, index, head,
                 commits, pushes, calls, gitCalls, lastSign, runs, faults>>

\* the manifest of a repository gets other bytes
TamperManifest ==
  /\ pc = "idle" /\ faults + edits < MaxEvents
  /\ \E d \in marker :
       /\ manifest[d].exists
       /\ manifest' = [manifest EXCEPT ![d] =
             Manifest(Append(@.lines, [hash |-> Md5(0), path |-> RelPath(FileA)]))]
       /\ pubOk' = [pubOk EXCEPT ![d] = FALSE]
  /\ edits' = edits + 1
  /\ UNCHANGED <<ctl, log_text, env, content, unreadable, asc, git, calls, gitCalls,
                 lastSign, runs, faults>>

\* the keys typed into the key field
Keys == {"", "KEY"}

\* ImGui::InputText("GPG_KEY_ID (opcional)", gpg_key_buf, ...): the user
\* types another key while no handler runs
TypeKey ==
  /\ pc = "idle" /\ faults + edits < MaxEvents
  /\ \E k \in Keys \ {gpg_key_buf} : gpg_key_buf' = k
  /\ edits' = edits + 1
  /\ UNCHANGED <<ctl, log_text, rootOk, reversed, marker, disk, git, hist, runs, faults>>

Next ==
  \/ PublishAllStart \/ Generate \/ Sign \/ Publish \/ PublishAllEnd
  \/ VerifyAllStart \/ VerifySig \/ VerifyMd5 \/ VerifyAllEnd
  \/ ModifyFile \/ TamperManifest \/ TypeKey

Spec == Init /\ [][Next]_vars

\* every handler that was started runs on
FairSpec == Spec /\ WF_vars(Generate \/ Sign \/ Publish \/ PublishAllEnd
                            \/ VerifySig \/ VerifyMd5 \/ VerifyAllEnd)

TypeOK ==
  /\ pc \in {"idle", "gen", "sign", "git", "pubEnd", "vsig", "vmd5", "verEnd"}
  /\ idx \in 1..(Cardinality(Dirs) + 1)
  /\ runs \in 0..MaxRuns /\ faults + edits \in 0..MaxEvents
  /\ gpg_key_buf \in Keys


\* ================================================================ claims
Last(q) == q[Len(q)]
Range(q) == {q[i] : i \in 1..Len(q)}
IsPrefix(p, q) == Len(p) <= Len(q) /\ SubSeq(q, 1, Len(p)) = p

\* the invocations of a stage among the first i calls of the run
CountStage(stage, i) == Cardinality({j \in 1..i : calls[j].stage = stage})

\* C1: in Publish-All every repository of the snapshot gets Generate, Sign,
\* Publish in this order, each at most once; Sign only right after a
\* successful Generate of the same repository, Publish only right after a
\* successful Sign; a failed stage is followed by the Generate of the next
\* repository of the snapshot
C1_StageOrder ==
  /\ \A i \in 1..Len(calls) :
       LET c == calls[i] IN
       /\ c.stage = "sign" => i > 1 /\ calls[i - 1] = Call("generate", c.repo, TRUE)
       /\ c.stage = "publish" => i > 1 /\ calls[i - 1] = Call("sign", c.repo, TRUE)
       /\ c.stage = "generate" =>
            /\ c.repo = repos[CountStage("generate", i)]
            /\ i > 1 => calls[i - 1].stage = "publish" \/ ~calls[i - 1].ok
       /\ \A j \in 1..Len(calls) : j # i => <<calls[j].stage, calls[j].repo>> # <<c.stage, c.repo>>
  /\ pc = "gen" => CountStage("generate", Len(calls)) = idx - 1
  /\ pc = "sign" => Last(calls) = Call("generate", repos[idx], TRUE)
  /\ pc = "git" => Last(calls) = Call("sign", repos[idx], TRUE)
  /\ pc = "pubEnd" =>
       /\ CountStage("generate", Len(calls)) = Len(repos)
       /\ repos # << >> => Last(calls).stage = "publish" \/ ~Last(calls).ok

\* the first repository failed in Generate and the second one was published
C1_Witness ==
  /\ pc = "pubEnd" /\ Len(repos) = 2
  /\ calls = <<Call("generate", repos[1], FALSE), Call("generate", repos[2], TRUE),
               Call("sign", repos[2], TRUE), Call("publish", repos[2], TRUE)>>

\* the log of the run under way: what follows the last opening line
RECURSIVE RunLog(_)
RunLog(lg) ==
  IF lg = << >> THEN << >>
  ELSE IF Last(lg)[1] \in {"=== Verificar ===", "=== Generar & Firmar ==="} THEN << >>
  ELSE Append(RunLog(SubSeq(lg, 1, Len(lg) - 1)), Last(lg))

IsStatusLine(l) ==
  l[1] \in {"Resultado: firma=OK, md5=OK", "Resultado: firma=OK, md5=FAIL",
            "Resultado: firma=FAIL, md5=OK", "Resultado: firma=FAIL, md5=FAIL"}
IsVerifyMark(l) == l[1] = "Verificando: " \/ IsStatusLine(l)

StatusText(sig, md) ==
  IF sig /\ md THEN "Resultado: firma=OK, md5=OK"
  ELSE IF sig THEN "Resultado: firma=OK, md5=FAIL"
  ELSE IF md THEN "Resultado: firma=FAIL, md5=OK"
  ELSE "Resultado: firma=FAIL, md5=FAIL"

\* the opening and status lines the calls of a verify run call for
RECURSIVE ExpectedMarks(_)
ExpectedMarks(cs) ==
  IF cs = << >> THEN << >>
  ELSE IF Len(cs) = 1 THEN << <<"Verificando: ", cs[1].repo>> >>
  ELSE << <<"Verificando: ", cs[1].repo>>, <<StatusText(cs[1].ok, cs[2].ok), "">> >>
       \o ExpectedMarks(SubSeq(cs, 3, Len(cs)))

InVerify == pc \in {"vsig", "vmd5", "verEnd"}

\* C2: in Verify-All every repository of the snapshot gets the signature
\* check and then the integrity check, whatever the first returned, and
\* exactly one status line, whose fields are what the two checks returned
C2_BothChecksOneLine ==
  InVerify =>
    /\ \A i \in 1..Len(calls) :
         /\ calls[i].stage = (IF i % 2 = 1 THEN "verify_signature" ELSE "verify_md5sum")
         /\ calls[i].repo = repos[(i + 1) \div 2]
    /\ pc = "vsig" => Len(calls) = 2 * (idx - 1)
    /\ pc = "vmd5" => Len(calls) = 2 * idx - 1
    /\ pc = "verEnd" => Len(calls) = 2 * Len(repos)
    /\ SelectSeq(RunLog(log_text), IsVerifyMark) = ExpectedMarks(calls)

\* a failed signature check was followed by a successful integrity check
C2_Witness ==
  /\ pc = "verEnd" /\ Len(repos) = 2
  /\ \E i \in 1..2 : ~calls[2 * i - 1].ok /\ calls[2 * i].ok
  /\ \E i \in 1..2 : calls[2 * i - 1].ok /\ calls[2 * i].ok

\* the signature on disk is a detached one over the manifest on disk, and
\* every line of the manifest matches its file
FullyValid(d) ==
  /\ manifest[d].exists /\ manifest[d].lines # << >>
  /\ asc[d].kind = "detached" /\ asc[d].over = manifest[d].lines
  /\ \A i \in 1..Len(manifest[d].lines) :
       \E f \in UserFiles \ unreadable[d] :
         manifest[d].lines[i] = [hash |-> Md5(content[d][f]), path |-> <<"./">> \o f]

\* the status line of the i-th repository of a finished verify run
StatusLineOf(i) == SelectSeq(RunLog(log_text), IsStatusLine)[i]

\* gpg printed its verdicts of the run under way in English
GpgEnglish ==
  \A k \in 1..Len(RunLog(log_text)) : RunLog(log_text)[k][1] # GpgGoodLine(FALSE)[1]

C3_WitnessOtherOrder ==
  /\ pc = "verEnd" /\ Len(repos) = 2
  /\ FullyValid(repos[1]) /\ ~manifest[repos[2]].exists

\* C4: no manifest ever holds a line for a path that begins with .git, for
\* hashes.md5 or for hashes.md5.asc
C4_SelfExclusion ==
  \A d \in Dirs : \A i \in 1..Len(manifest[d].lines) :
    LET path == manifest[d].lines[i].path IN
    /\ path[1] = "./"
    /\ path[2] # ".git"
    /\ path # <<"./", "hashes.md5">>
    /\ path # <<"./", "hashes.md5", ".asc">>

\* a manifest was generated in a repository that holds .git/HEAD,
\* .gitignore, the manifest and the signature file
C4_Witness ==
  \E d \in Dirs :
    /\ pc = "sign" /\ repos[idx] = d
    /\ asc[d] # NoSig
    /\ Len(manifest[d].lines) = 2


\* C5: in a repository that Generate and Sign went through successfully and
\* that nothing edited, verify_signature and verify_md5sum return true
C5_RoundTrip ==
  \A i \in 1..Len(calls) :
    ( /\ calls[i].stage \in {"verify_signature", "verify_md5sum"}
      /\ lastSign[calls[i].repo] = "ok"
      /\ edits = 0 )
    => calls[i].ok

\* the line generate_hashes_md5 writes for a user file
LineFor(d, f) == [hash |-> Md5(content[d][f]), path |-> <<"./">> \o f]

\* C6: when Generate has returned true the manifest holds exactly one line
\* "<digest>  ./<relative path>" for every user file, with the digest of
\* the file's content, and nothing else
C6_GenerateComplete ==
  pc = "sign" =>
    LET d == repos[idx]
        lines == manifest[d].lines IN
    /\ manifest[d].exists
    /\ Len(lines) = Cardinality(UserFiles)
    /\ \A f \in UserFiles : \E i \in 1..Len(lines) : lines[i] = LineFor(d, f)

\* Generate succeeded over a manifest of before, after a file was edited
C6_Witness ==
  /\ pc = "sign"
  /\ head[repos[idx]] = Published
  /\ content[repos[idx]][FileA] = 1
  /\ manifest[repos[idx]].lines # OldLines

\* the user files in the order the directory lists them
UserOrder == IF reversed THEN <<SubManifest, FileA>> ELSE <<FileA, SubManifest>>

\* Generate has just returned false for d because md5sum failed
HashFailed(d) ==
  /\ pc \in {"gen", "pubEnd"}
  /\ calls # << >> /\ Last(calls) = Call("generate", d, FALSE)
  /\ Len(log_text) >= 4
  /\ log_text[Len(log_text) - 3] = L("md5sum fallo para ", d)

\* C7: when md5sum fails for a file, Generate returns false with the
\* tool's output in the log, and the manifest holds exactly the lines of
\* the files listed before that file, nothing of the manifest of before
C7_AbortOnHashFailure ==
  \A d \in Dirs :
    HashFailed(d) =>
      LET firstBad == CHOOSE i \in 1..2 : UserOrder[i] \in unreadable[d]
                                          /\ \A j \in 1..(i - 1) : UserOrder[j] \notin unreadable[d]
      IN
      /\ unreadable[d] # {}
      /\ manifest[d] = Manifest([i \in 1..(firstBad - 1) |-> LineFor(d, UserOrder[i])])
      /\ log_text[Len(log_text) - 2] = L("md5sum output", "")

\* md5sum failed for the second file of a repository that had a manifest
\* of two lines: one line is left
C7_Witness ==
  \E d \in Dirs :
    /\ HashFailed(d)
    /\ head[d] = Published
    /\ Len(manifest[d].lines) = 1

\* C8: after sign_hashes returned false for a repository, verify_signature
\* does not return true for it
C8_NoValidAfterFailedSign ==
  \A i \in 1..Len(calls) :
    (calls[i].stage = "verify_signature" /\ lastSign[calls[i].repo] = "failed")
    => ~calls[i].ok

\* C9: git_add_commit_push on a repository where it returned true before,
\* nothing edited in between and no git command failing for a reason of
\* its own, returns true and creates no commit, no push
C9_NoOpCommit ==
  [][(pc = "git" /\ pubOk[repos[idx]] /\ faults' = faults)
     => (Last(calls').ok /\ commits' = commits /\ pushes' = pushes)]_vars

\* C10: git_add_commit_push runs add, status, commit, push in this order,
\* each only after the ones before it succeeded; add stages the manifest
\* and the signature; commit and push run only when status listed pending
\* changes, push only after a commit was created; it returns true only
\* after a successful push or an empty status, and a failing command
\* leaves the later ones undone
C10_PublisherSteps ==
  [][pc = "git" =>
      LET d == repos[idx]
          worktree == [man |-> manifest[d], asc |-> asc[d]]
          pending == worktree # head[d] \/ dirty[d]
          ran == gitCalls'
          ok == Last(calls').ok
      IN
      /\ ran # << >> /\ IsPrefix(ran, GitSteps)
      /\ index'[d] = (IF Len(ran) >= 2 THEN worktree ELSE index[d])
      /\ Len(ran) >= 3 => pending
      /\ Len(ran) = 4 => commits'[d] = commits[d] + 1 /\ head'[d] = worktree
      /\ Len(ran) < 4 => commits' = commits /\ head' = head /\ pushes' = pushes
      /\ ok => \/ Len(ran) = 4 /\ pushes'[d] = pushes[d] + 1
               \/ Len(ran) = 2 /\ ~pending
      /\ ~ok => pushes' = pushes
      /\ Len(ran) \in {1, 3} => ~ok
      /\ Len(ran) = 2 /\ pending => ~ok
      /\ \A e \in Dirs \ {d} : index'[e] = index[e] /\ head'[e] = head[e]
  ]_vars

\* git commit failed: add, status and commit were run, push was not
C10_Witness ==
  /\ calls # << >> /\ Last(calls).stage = "publish" /\ ~Last(calls).ok
  /\ gitCalls = <<"add", "status", "commit">>
  /\ pc \in {"gen", "pubEnd"}

\* C11: when the signature file was made over other bytes than the manifest
\* now holds, verify_signature returns false
C11_ManifestTamper ==
  pc = "vmd5" =>
    LET d == repos[idx] IN
    (asc[d] # NoSig /\ manifest[d].exists /\ asc[d].over # manifest[d].lines)
    => (~sigok /\ Last(calls) = Call("verify_signature", d, FALSE))

\* a detached signature over the manifest, the manifest changed afterwards
\* with the files as they were, and verify_signature has run on it
C11_Witness ==
  /\ pc = "vmd5"
  /\ asc[repos[idx]] = Published.asc
  /\ manifest[repos[idx]].lines # OldLines
  /\ \A f \in UserFiles : content[repos[idx]][f] = 0
  /\ ~sigok
  /\ log_text[Len(log_text) - 1] = L("gpg: BAD signature", "")

\* the log of the repository under way: what follows the last "Verificando"
RECURSIVE RepoLog(_)
RepoLog(lg) ==
  IF lg = << >> THEN << >>
  ELSE IF Last(lg)[1] = "Verificando: " THEN << >>
  ELSE Append(RepoLog(SubSeq(lg, 1, Len(lg) - 1)), Last(lg))

IsMd5Verdict(l) == l[1] \in {": OK", ": FAILED", ": FAILED open or read"}

\* the per-file lines of md5sum -c in the log once verify_md5sum has
\* returned
Md5Output == SelectSeq(RepoLog(log_text), IsMd5Verdict)

\* verify_md5sum has just returned
AfterMd5 == pc \in {"vsig", "verEnd"} /\ calls # << >> /\ Last(calls).stage = "verify_md5sum"

\* C12: when the manifest holds the digests of a content c0 of the files
\* and exactly one file now has another content, verify_md5sum returns
\* false and md5sum -c reports FAILED for that file, OK for the others
C12_FileTamper ==
  AfterMd5 =>
    LET d == Last(calls).repo
        lines == manifest[d].lines
        n == Len(lines)
    IN
    \A c0 \in [UserFiles -> Contents] :
      ( /\ manifest[d].exists /\ unreadable[d] = {}
        /\ n = Cardinality(UserFiles)
        /\ \A f \in UserFiles :
             \E i \in 1..n : lines[i] = [hash |-> Md5(c0[f]), path |-> RelPath(f)]
        /\ Cardinality({f \in UserFiles : c0[f] # content[d][f]}) = 1 )
      => /\ ~Last(calls).ok
         /\ Len(Md5Output) = n
         /\ \A i \in 1..n : \A f \in UserFiles :
              lines[i].path = RelPath(f) =>
                Md5Output[i] = L(IF c0[f] # content[d][f] THEN ": FAILED" ELSE ": OK",
                                    RelPath(f))

\* a file of a repository with a valid manifest and signature was edited
\* and verify_md5sum has reported on it
C12_Witness ==
  /\ AfterMd5
  /\ LET d == Last(calls).repo IN
     /\ manifest[d].lines = OldLines /\ asc[d] = Published.asc
     /\ content[d][FileA] = 1
     /\ Md5Output = <<L(": FAILED", RelPath(FileA)), L(": OK", RelPath(SubManifest))>>
     /\ ~Last(calls).ok

\* the lines gpg --verify prints
IsGpgLine(l) ==
  l[1] \in {"gpg: using key", "gpg: using key ID", "gpg: Good signature",
            "gpg: Firma correcta", "gpg: BAD signature", "gpg: not a detached signature"}

\* C13: once verify_signature has returned: with the signature or the
\* manifest missing it returned false and the log holds no output of gpg;
\* otherwise the log holds the output of one gpg --verify over the two
\* files, and it returned true exactly when gpg exited with status zero and
\* its output holds "Good signature"
C13_Classification ==
  pc = "vmd5" =>
    LET d == repos[idx]
        gpgOut == SelectSeq(RepoLog(log_text), IsGpgLine)
    IN
    /\ Last(calls) = Call("verify_signature", d, sigok)
    /\ (asc[d] = NoSig \/ ~manifest[d].exists) => (~sigok /\ gpgOut = << >>)
    /\ (asc[d] # NoSig /\ manifest[d].exists) =>
         \E english \in BOOLEAN :
           LET res == GpgVerifyCmd(asc[d], manifest[d].lines, gpg_key_buf # "", english) IN
           /\ gpgOut = res.out
           /\ sigok <=> (res.rc = 0 /\ HasGoodSignature(res.out))

\* gpg exited with status zero on a good signature, its output does not
\* hold the words, and verify_signature has returned false
C13_Witness ==
  /\ pc = "vmd5" /\ FullyValid(repos[idx])
  /\ ~sigok
  /\ SelectSeq(RepoLog(log_text), IsGpgLine) = <<GpgKeyLine(FALSE), GpgGoodLine(FALSE)>>
  /\ Last(log_text) = L("Firma NO valida o no verificable en ", repos[idx])

\* C14: the snapshot a handler iterates over holds exactly the
\* subdirectories of the root that contain .git, each once, or, when the
\* root could not be listed to its end, nothing
C14_ScanExactOrEmpty ==
  pc # "idle" =>
    \/ repos = << >>
    \/ /\ Range(repos) = marker
       /\ Len(repos) = Cardinality(marker)

\* the lines md5sum -c prints
IsMd5Line(l) ==
  IsMd5Verdict(l) \/ l[1] \in {"md5sum: WARNING",
                                "md5sum: no properly formatted checksum lines found"}

\* C15: once verify_md5sum has returned: without a manifest it returned
\* false and the log holds no output of md5sum; otherwise the log holds the
\* output of one md5sum -c over the manifest and it returned true exactly
\* when md5sum exited with status zero; a listed file that cannot be read
\* makes it return false, and the handler goes on to the status line
C15_IntegrityVerdict ==
  AfterMd5 =>
    LET d == Last(calls).repo
        ok == Last(calls).ok
        md5Out == SelectSeq(RepoLog(log_text), IsMd5Line)
    IN
    /\ ~manifest[d].exists => (~ok /\ md5Out = << >>)
    /\ manifest[d].exists =>
         LET res == Md5sumCheckCmd(manifest[d].lines, content[d], unreadable[d]) IN
         /\ md5Out = res.out
         /\ ok <=> res.rc = 0
    /\ (\E i \in 1..Len(manifest[d].lines) : \E f \in unreadable[d] :
          manifest[d].lines[i].path = RelPath(f)) => ~ok
    /\ IsStatusLine(Last(log_text))
    /\ Last(log_text)[1] \in (IF ok THEN {"Resultado: firma=OK, md5=OK", "Resultado: firma=FAIL, md5=OK"}
                              ELSE {"Resultado: firma=OK, md5=FAIL", "Resultado: firma=FAIL, md5=FAIL"})

\* the manifest lists a file that cannot be read any more: md5sum -c
\* reported it, verify_md5sum returned false, the status line was written
C15_Witness ==
  /\ AfterMd5
  /\ LET d == Last(calls).repo IN
     /\ manifest[d].lines = OldLines
     /\ unreadable[d] = {SubManifest}
     /\ Md5Output = <<L(": OK", RelPath(FileA)), L(": FAILED open or read", RelPath(SubManifest))>>
     /\ ~Last(calls).ok
     /\ IsStatusLine(Last(log_text))

\* verify_md5sum has returned false for a repository without a manifest
C15_WitnessNoManifest ==
  /\ AfterMd5
  /\ ~manifest[Last(calls).repo].exists
  /\ Last(log_text)[1] = "Resultado: firma=FAIL, md5=FAIL"

\* C16: every step leaves the log as it was or appends to it: the log
\* before the step is a prefix of the log after it
C16_LogAppendOnly ==
  [][IsPrefix(log_text, log_text')]_vars

\* a second run, with a failing stage, has added its lines to the log of
\* the first run
C16_Witness ==
  /\ pc = "idle" /\ runs = 2
  /\ log_text[1][1] \in {"=== Verificar ===", "=== Generar & Firmar ==="}
  /\ Last(log_text)[1] = "=== Fin ==="
  /\ \E k \in 2..Len(log_text) : log_text[k][1] \in {"=== Fin ===", "=== Fin verificacion ==="}
                                   /\ k < Len(log_text)
  /\ \E k \in 1..Len(log_text) : log_text[k][1] = "ERROR firmando en "

\* C17: a step of Verify-All, from the press of the button to the closing
\* line, leaves the files of every directory and its git index, HEAD,
\* commits and pushes as they were
C17_VerifyReadOnly ==
  [][(InVerify \/ pc' \in {"vsig", "vmd5", "verEnd"})
     => (disk' = disk /\ git' = git /\ marker' = marker)]_vars

\* Verify-All has run to its end over a repository whose manifest was
\* changed after signing: both checks ran, the signature check failed, and
\* the changed manifest, the signature and HEAD are as before the run
C17_Witness ==
  /\ pc = "idle" /\ log_text # << >>
  /\ Last(log_text)[1] = "=== Fin verificacion ==="
  /\ \E i \in 1..Len(calls) :
       LET d == calls[i].repo IN
       /\ calls[i] = Call("verify_signature", d, FALSE)
       /\ manifest[d].exists /\ manifest[d].lines # OldLines
       /\ asc[d] = Published.asc /\ head[d] = Published /\ index[d] = Published
       /\ commits[d] = 0 /\ pushes[d] = 0

\* C18: on the files of any directory, in any state the session reaches,
\* verify_signature returns the same for every key typed in, gpg speaking
\* the same language; and what the handler got from it with the key of
\* the field is what it would have got with any other key
C18_KeyIrrelevant ==
  /\ \A d \in Dirs : \A english \in BOOLEAN : \A k1, k2 \in Keys :
       VerifySignature(d, k1, english).ok = VerifySignature(d, k2, english).ok
  /\ pc = "vmd5" =>
       \E english \in BOOLEAN :
         /\ RepoLog(log_text) = VerifySignature(repos[idx], gpg_key_buf, english).log
         /\ \A k \in Keys : sigok = VerifySignature(repos[idx], k, english).ok

\* with a key typed in, gpg was run with --keyid-format LONG on a good
\* signature and verify_signature returned true
C18_Witness ==
  /\ pc = "vmd5" /\ gpg_key_buf # ""
  /\ FullyValid(repos[idx]) /\ sigok
  /\ RepoLog(log_text) = <<GpgKeyLine(TRUE), GpgGoodLine(TRUE), L("Firma valida en ", repos[idx])>>

\* the manifest and signature a successful Generate and Sign of run r leave
\* in directory d
FreshPair(d, r, pair) ==
  /\ pair.man.exists
  /\ Len(pair.man.lines) = Cardinality(UserFiles)
  /\ \A f \in UserFiles : \E i \in 1..Len(pair.man.lines) : pair.man.lines[i] = LineFor(d, f)
  /\ pair.asc = GpgSignCmd(pair.man.lines, r)

\* C19: what git_add_commit_push stages and commits in Publish-All is the
\* manifest that generate_hashes_md5 wrote in full in this run and the
\* signature that sign_hashes made in this run over that manifest, both
\* having returned true for the repository just before
C19_PublishFresh ==
  [][pc = "git" =>
      LET d == repos[idx]
          n == Len(calls)
      IN
      /\ n >= 2
      /\ calls[n - 1] = Call("generate", d, TRUE) /\ calls[n] = Call("sign", d, TRUE)
      /\ index'[d] # index[d] => FreshPair(d, runs, index'[d])
      /\ head'[d] # head[d] => FreshPair(d, runs, head'[d])
      /\ commits'[d] # commits[d] => FreshPair(d, runs, head'[d])
  ]_vars

\* in the second run of the session a repository that held a manifest and a
\* signature of before was committed and pushed with the pair of this run
C19_Witness ==
  /\ pc \in {"gen", "pubEnd"} /\ runs = 2
  /\ calls # << >> /\ Last(calls).stage = "publish" /\ Last(calls).ok
  /\ LET d == Last(calls).repo IN
     /\ gitCalls = GitSteps
     /\ commits[d] = 1 /\ pushes[d] = 1
     /\ content[d][FileA] = 1
     /\ FreshPair(d, 2, head[d])
     /\ head[d].man.lines # OldLines

\* the repositories the run under way has entered, in the order of entry
RECURSIVE Visited(_)
Visited(cs) ==
  IF cs = << >> THEN << >>
  ELSE IF Last(cs).stage \in {"generate", "verify_signature"}
    THEN Append(Visited(SubSeq(cs, 1, Len(cs) - 1)), Last(cs).repo)
    ELSE Visited(SubSeq(cs, 1, Len(cs) - 1))

\* the handler has returned: every repository of the snapshot was entered
\* once, in order, and the log ends with the closing line given
Closed(line) ==
  /\ pc = "idle"
  /\ Visited(calls) = repos
  /\ log_text # << >> /\ Last(log_text)[1] = line

InPublish == pc \in {"gen", "sign", "git", "pubEnd"}

\* C20: every run of Publish-All and of Verify-All that was started comes
\* to its end, having entered each repository of its snapshot once, in
\* order, and with its closing line as the last line of the log
C20_RunsTerminate ==
  /\ InPublish ~> Closed("=== Fin ===")
  /\ InVerify ~> Closed("=== Fin verificacion ===")

\* a Publish-All over two repositories, the first failing in Generate, has
\* come to its end
C20_Witness ==
  /\ Closed("=== Fin ===")
  /\ Len(repos) = 2
  /\ calls[1] = Call("generate", repos[1], FALSE)

\* a Verify-All over two repositories has come to its end
C20_WitnessVerify ==
  /\ Closed("=== Fin verificacion ===")
  /\ Len(repos) = 2 /\ Len(calls) = 4

====
